---- MODULE Spec2Model ----
(***************************************************************************)
(* A model of the LM Studio embedding adapter (src/src/lmstudio.ts): the   *)
(* module-scoped model catalog (listModels), the input normalizer          *)
(* (coerceToText, normalizeBatchInputs) and the batch embedding engine     *)
(* (LmStudioEmbeddingAdapter.embed_batch) with its two recovery paths.     *)
(*                                                                         *)
(* Strings are sequences of one-character strings.  A JavaScript value is  *)
(* a record [t, s]: its typeof-like tag and, for a string or a number, its *)
(* String() form.  An action is one run of JavaScript between two          *)
(* suspension points: from a call or a response's arrival to the next      *)
(* await of a network request, or to the return / throw of the operation.  *)
(***************************************************************************)
EXTENDS Integers, Sequences, FiniteSets, TLC

\* ------------------------------------------------------------------ bounds

\* The longest input list handed to embed_batch.
MaxItems == 3
\* The most entries in the data array of a GET /v1/models response.
MaxEntries == 2
\* The number of clock ticks (of TickMs each) a behaviour may take.
MaxTicks == 4
\* The number of calls each caller makes in a behaviour.
MaxCalls == 3

\* Batch sizes are fractions n / Den.
Den == 2

\* ------------------------------------------------------- JavaScript values

Undef == [t |-> "undefined", s |-> <<>>]
Null == [t |-> "null", s |-> <<>>]
Str(s) == [t |-> "string", s |-> s]
\* A number, with its String() form.
Num(digits) == [t |-> "number", s |-> digits]

IsNullish(v) == v.t \in {"undefined", "null"}

\* String.prototype.trim: strips white space and line terminators at both ends.
WhiteSpace == {" ", "\t", "\n"}

RECURSIVE TrimStart(_)
TrimStart(s) ==
  IF s = <<>> THEN <<>>
  ELSE IF Head(s) \in WhiteSpace THEN TrimStart(Tail(s)) ELSE s

RECURSIVE TrimEnd(_)
TrimEnd(s) ==
  IF s = <<>> THEN <<>>
  ELSE IF s[Len(s)] \in WhiteSpace THEN TrimEnd(SubSeq(s, 1, Len(s) - 1)) ELSE s

Trim(s) == TrimEnd(TrimStart(s))

\* ------------------------------------------------------- embeddable items

\* The property paths an item may carry text under.  An item is [v, f]: its
\* own value v (a primitive, or an object) and, for an object, the value
\* f[p] read at each path p (undefined when absent, or when data is no object).
FieldPaths ==
  {"embed_input", "text", "content", "input",
   "data.embed_input", "data.text", "data.content", "data.input"}

NoFields == [p \in FieldPaths |-> Undef]
Prim(v) == [v |-> v, f |-> NoFields]
Obj(f) == [v |-> [t |-> "object", s |-> <<>>], f |-> f]
With(p, v) == [NoFields EXCEPT ![p] = v]
With2(p, v, q, w) == [NoFields EXCEPT ![p] = v, ![q] = w]

\* item?.path
Get(item, p) == IF item.v.t = "object" THEN item.f[p] ELSE Undef

\* The paths coerceToText reads, in the order of its ?? chain.
ProbeOrder ==
  <<"embed_input", "text", "content", "input",
    "data.embed_input", "data.text", "data.content">>

\* a ?? b ?? ... ?? null: the first value that is neither undefined nor null.
RECURSIVE NullishChain(_, _)
NullishChain(item, paths) ==
  IF paths = <<>> THEN Null
  ELSE IF IsNullish(Get(item, Head(paths))) THEN NullishChain(item, Tail(paths))
  ELSE Get(item, Head(paths))

coerceToText(item) ==
  IF item.v.t = "string" THEN item.v.s
  ELSE LET candidate == NullishChain(item, ProbeOrder)
       IN  IF candidate.t = "string" THEN candidate.s ELSE <<>>

\* A normalizer that leaves a blank text empty.
normalizeOneNoSubstitute(item) == Trim(coerceToText(item))

normalizeOne(item) ==
  LET trimmed == Trim(coerceToText(item))
  IN  IF trimmed # <<>> THEN trimmed ELSE <<" ">>

\* A normalizer that drops the items without text.
normalizeBatchInputsDropping(inputs) ==
  LET all == [i \in 1..Len(inputs) |-> Trim(coerceToText(inputs[i]))]
      HasText(t) == t # <<>>
  IN  SelectSeq(all, HasText)

normalizeBatchInputs(inputs) == [i \in 1..Len(inputs) |-> normalizeOne(inputs[i])]

\* ---------------------------------------------------------------- state

VARIABLES
  probe,          \* the pure-function harness: an item and what it coerces to
  settings,       \* lmstudio.ts `settings` (the fields the model reads)
  cachedModels,   \* lmstudio.ts `cachedModels`: its keys, in insertion order
  lastFetchedAt,  \* lmstudio.ts `lastFetchedAt` (ms)
  now,            \* Date.now() (ms)
  netCalls,       \* history: the GET /v1/models requests issued so far
  lastRefresh,    \* history: the body of the last successful GET /v1/models,
                  \* and the snapshot it replaced
  lm,             \* per caller of listModels: its frame and its outcome
  model,          \* the adapter's this.model.data (the fields the adapter uses)
  eb,             \* per caller of embed_batch: its frame, its requests, its outcome
  state,          \* the adapter's this.state
  gm,             \* per caller of get_models / load: its frame and its outcome
  atUnload,       \* history: per caller of embed_batch, the call (its number
                  \* and the group it was at) that was in flight when unload
                  \* was last called
  env,            \* the Smart Connections env: how far it is set up, its
                  \* providers registries and its adapter registries
  plugin,         \* main.ts: the plugin's bootstrapped and registrationInterval,
                  \* and the history of what it did
  boot            \* per call of bootstrap(): where it is

catVars == <<settings, cachedModels, lastFetchedAt, now, netCalls, lastRefresh, lm>>
ebVars == <<model, eb>>
adVars == <<state, gm, atUnload>>
plVars == <<env, plugin, boot>>
vars == <<probe, catVars, ebVars, adVars, plVars>>

\* ---------------------------------------------------- pure-function harness

\* The values a probed field may hold.
ProbeValues ==
  {Undef, Null, Num(<<"5">>), Str(<<>>), Str(<<" ", " ">>),
   Str(<<"a">>), Str(<<" ", "b", " ">>)}

\* Primitives, and objects carrying at most two of the eight fields.
ProbeItems ==
  {Prim(v) : v \in ProbeValues}
  \cup {Obj(With2(p, v, q, w)) : p \in FieldPaths, q \in FieldPaths,
                                 v \in ProbeValues, w \in ProbeValues}

NoProbe == [item |-> Prim(Undef), done |-> TRUE, text |-> <<>>, norm |-> <<>>]

\* coerceToText(item), then normalizeBatchInputs([item])[0]
Coerce ==
  /\ ~probe.done
  /\ probe' = [probe EXCEPT !.done = TRUE,
                            !.text = coerceToText(probe.item),
                            !.norm = normalizeBatchInputs(<<probe.item>>)[1]]
  /\ UNCHANGED <<catVars, ebVars, adVars, plVars>>

\* ------------------------------------------------------------ the catalog

\* listModels reuses a snapshot younger than this (ms).
FreshnessMs == 15000
\* The clock advances in steps of this many ms.
TickMs == 5000

\* The id field of a data entry of a GET /v1/models response (undefined when
\* the entry has none, or is itself null).
IdPool == {Undef, Str(<<"p">>), Str(<<" ", "q", " ">>), Str(<<" ">>)}

RECURSIVE SeqsUpTo(_, _)
SeqsUpTo(S, n) ==
  IF n = 0 THEN {<<>>}
  ELSE LET shorter == SeqsUpTo(S, n - 1)
       IN  shorter \cup {Append(q, x) : q \in {r \in shorter : Len(r) = n - 1}, x \in S}

\* A parsed response body: whether body.data is an array, and the entries' ids.
ModelsBodies ==
  {[array |-> FALSE, data |-> <<>>]}
  \cup {[array |-> TRUE, data |-> d] : d \in SeqsUpTo(IdPool, MaxEntries)}

\* String(m?.id ?? "")
StringOfId(id) == IF IsNullish(id) THEN <<>> ELSE id.s

Range(q) == {q[i] : i \in 1..Len(q)}

\* The for loop of listModels: next[id] = {...} for every entry with a
\* non-empty trimmed id; an id seen again keeps its place among the keys.
RECURSIVE BuildNext(_, _)
BuildNext(next, models) ==
  IF models = <<>> THEN next
  ELSE LET id == Trim(StringOfId(Head(models)))
       IN  IF id = <<>> \/ id \in Range(next) THEN BuildNext(next, Tail(models))
           ELSE BuildNext(Append(next, id), Tail(models))

\* A listModels that adds the response's entries to the snapshot it holds.
SnapshotOfMerging(body) == BuildNext(cachedModels, IF body.array THEN body.data ELSE <<>>)

\* The snapshot listModels builds from a parsed body.
SnapshotOf(body) == BuildNext(<<>>, IF body.array THEN body.data ELSE <<>>)

\* A freshness test that still reuses a snapshot of exactly FreshnessMs.
UseCachedInclusive(refresh, t) ==
  ~refresh /\ t - lastFetchedAt <= FreshnessMs /\ Len(cachedModels) > 0

\* The test of listModels's first line: the snapshot is reused.
UseCached(refresh, t) ==
  ~refresh /\ t - lastFetchedAt < FreshnessMs /\ Len(cachedModels) > 0

\* A caller's frame: where it is (pc), the arguments and locals of its call
\* (refresh, now), and what the call did: whether it issued a request
\* (fetched), how the request ended (resp: "none", "ok", "fail"), how the
\* call ended (status: "none", "returned", "threw") and with what (value);
\* n counts the caller's calls.
IdleFrame ==
  [pc |-> "idle", refresh |-> FALSE, now |-> 0, fetched |-> FALSE, resp |-> "none",
   status |-> "none", value |-> <<>>, n |-> 0]

\* listModels(refresh), up to its return of the cached snapshot or its await
\* of fetchJson("/v1/models").
ListModelsCall(c, refresh) ==
  /\ lm[c].pc \in {"idle", "done"}
  /\ lm[c].n < MaxCalls
  /\ IF UseCached(refresh, now)
     THEN /\ lm' = [lm EXCEPT ![c] = [pc |-> "done", refresh |-> refresh, now |-> now,
                                      fetched |-> FALSE, resp |-> "none",
                                      status |-> "returned",
                                      value |-> cachedModels, n |-> lm[c].n + 1]]
          /\ UNCHANGED netCalls
     ELSE /\ lm' = [lm EXCEPT ![c] = [pc |-> "await_models", refresh |-> refresh, now |-> now,
                                      fetched |-> TRUE, resp |-> "none",
                                      status |-> "none",
                                      value |-> <<>>, n |-> lm[c].n + 1]]
          /\ netCalls' = netCalls + 1
  /\ UNCHANGED <<probe, settings, cachedModels, lastFetchedAt, now, lastRefresh, ebVars, adVars, plVars>>

\* fetchJson resolved: the snapshot is rebuilt and stamped with the time the
\* call started.
ListModelsOk(c, body) ==
  /\ lm[c].pc = "await_models"
  /\ cachedModels' = SnapshotOf(body)
  /\ lastFetchedAt' = lm[c].now
  /\ lastRefresh' = [ok |-> TRUE, body |-> body, prev |-> cachedModels]
  /\ lm' = [lm EXCEPT ![c].pc = "done", ![c].resp = "ok", ![c].status = "returned",
                      ![c].value = SnapshotOf(body)]
  /\ UNCHANGED <<probe, settings, now, netCalls, ebVars, adVars, plVars>>

\* A listModels that drops its snapshot when the request fails.
ListModelsFailClearing(c) ==
  /\ lm[c].pc = "await_models"
  /\ cachedModels' = <<>>
  /\ lm' = [lm EXCEPT ![c].pc = "done", ![c].resp = "fail", ![c].status = "threw"]
  /\ UNCHANGED <<probe, settings, lastFetchedAt, now, netCalls, lastRefresh, ebVars, adVars, plVars>>

\* fetchJson rejected (network error, abort by the timeout, non-2xx status,
\* JSON.parse threw): listModels rejects with that error.
ListModelsFail(c) ==
  /\ lm[c].pc = "await_models"
  /\ lm' = [lm EXCEPT ![c].pc = "done", ![c].resp = "fail", ![c].status = "threw"]
  /\ UNCHANGED <<probe, settings, cachedModels, lastFetchedAt, now, netCalls, lastRefresh, ebVars, adVars, plVars>>

\* Time passes.
Tick ==
  /\ now < 2 * FreshnessMs + MaxTicks * TickMs
  /\ now' = now + TickMs
  /\ UNCHANGED <<probe, settings, cachedModels, lastFetchedAt, netCalls, lastRefresh, lm, ebVars, adVars, plVars>>

\* ------------------------------------------------------------- numbers

\* The value of a numeric field: [k, n] with k the kind ("undefined",
\* "number" for a finite number, "nan") and n the number.  A batch size is
\* the fraction n / Den; a dimensionality is the integer n.
NUndef == [k |-> "undefined", n |-> 0]
NaN == [k |-> "nan", n |-> 0]
N(n) == [k |-> "number", n |-> n]

\* Number(v)
ToNumber(v) == IF v.k = "undefined" THEN NaN ELSE v

\* Number.isFinite(v)
IsFinite(v) == v.k = "number"

\* settings.batchSize ?? 16, and static batch_size
DefaultBatchSize == 16

\* ensureBatchSize's `valid`: the model's batch_size when Number() of it is
\* finite and positive, else settings.batchSize ?? 16.
ValidBatchSize(m) ==
  LET fallback == IF settings.batchSize.k = "undefined" THEN N(DefaultBatchSize * Den)
                  ELSE settings.batchSize
      candidate == ToNumber(m.batch_size)
  IN  IF IsFinite(candidate) /\ candidate.n > 0 THEN candidate ELSE fallback

\* ensureBatchSize's writes onto this.model.data.
EnsuredModel(m) ==
  LET valid == ValidBatchSize(m)
      bad(v) == ~IsFinite(v) \/ v.n <= 0
  IN  [m EXCEPT !.batch_size = IF bad(m.batch_size) THEN valid ELSE @,
                !.max_batch_size = IF bad(m.max_batch_size) THEN valid ELSE @]

Min(a, b) == IF a < b THEN a ELSE b

\* items.slice(a, b) for 0 <= a
Slice(items, a, b) == SubSeq(items, a + 1, Min(b, Len(items)))

\* chunk(items, size) for a size sz / Den > 0: the loop from index i / Den on;
\* slice truncates its two arguments to integers.
RECURSIVE ChunkFrom(_, _, _)
ChunkFrom(items, i, sz) ==
  IF i >= Len(items) * Den THEN <<>>
  ELSE <<Slice(items, i \div Den, (i + sz) \div Den)>> \o ChunkFrom(items, i + sz, sz)

chunk(items, sz) == ChunkFrom(items, 0, sz)

\* chunk(items, size) never leaves its loop: `i += size` with a size that is a
\* number <= 0 keeps i below items.length.
ChunkLoops(items, size) == Len(items) > 0 /\ size.k = "number" /\ size.n <= 0

\* chunk(items, size) when its loop ends. A size that is NaN or no number makes
\* the first slice(0, i + size) empty and `i < items.length` false afterwards.
ChunkOf(items, size) ==
  IF size.k = "number" THEN chunk(items, size.n)
  ELSE IF Len(items) > 0 THEN << <<>> >> ELSE <<>>

\* An estimate that rounds len / 4 down.
estimateTokensFloor(text) ==
  LET floor == Len(text) \div 4
  IN  IF floor > 1 THEN floor ELSE 1

\* estimateTokens: Math.max(1, Math.ceil(len / 4))
estimateTokens(text) ==
  LET ceil == (Len(text) + 3) \div 4
  IN  IF ceil > 1 THEN ceil ELSE 1

\* ------------------------------------------------------------- the server

Alphabet == <<" ", "b", "e", "h", "l", "o", "p", "q">>
CharCode(ch) == CHOOSE i \in 1..Len(Alphabet) : Alphabet[i] = ch

\* A positive number that tells the texts apart.
RECURSIVE Code(_)
Code(text) == IF text = <<>> THEN 1 ELSE CharCode(Head(text)) + 10 * Code(Tail(text))

\* The embedding of `text` the server returns: its components tell the texts
\* apart, and so may its length (the server need not keep to one length).
VecLen(text) == 1 + (Code(text) % 2)
Vec(text) == [i \in 1..VecLen(text) |-> Code(text)]

\* ------------------------------------------------------------ embed_batch

\* padToLength's last resort for the components of a zero vector.
DefaultDims == 1536

\* padToLength(vectors, targetLength)
padToLength(vectors, targetLength, m) ==
  IF Len(vectors) >= targetLength THEN SubSeq(vectors, 1, targetLength)
  ELSE LET dims == IF IsFinite(m.dims) THEN m.dims.n
                   ELSE IF Len(vectors) > 0 THEN Len(vectors[1])
                   ELSE DefaultDims
       IN  vectors \o [i \in 1..(targetLength - Len(vectors)) |-> [j \in 1..dims |-> 0]]

\* A caller's frame: where it is (pc), the locals of its embed_batch call, how
\* the call ended (status: "none", "returned", "threw"; value; error), and as
\* history: the requests issued for the group at hand with how each ended
\* (log), the length of `vectors` when that group began (base), the number of
\* the caller's calls (n), the method the caller called (via).
IdleEmbed ==
  [pc |-> "idle", items |-> <<>>, normalized |-> <<>>, batchSize |-> N(0), modelKey |-> <<>>,
   groups |-> <<>>, gi |-> 0, vectors |-> <<>>, recovered |-> <<>>, oi |-> 0,
   inTry |-> FALSE, now |-> 0, status |-> "none", value |-> <<>>, error |-> "none",
   log |-> <<>>, base |-> 0, n |-> 0, via |-> "embed_batch"]

Request(kind, g, input) == [kind |-> kind, g |-> g, input |-> input, resp |-> "pending"]

Answer(log, resp) == [log EXCEPT ![Len(log)].resp = resp]

\* The return of embed_batch: pad, then wrap each vector with its tokens.
Returned(f, m) ==
  LET padded == padToLength(f.vectors, Len(f.normalized), m)
  IN  [f |-> [f EXCEPT !.pc = "done", !.status = "returned",
                       !.value = [i \in 1..Len(padded) |->
                                    [vec |-> padded[i],
                                     tokens |-> estimateTokens(IF i <= Len(f.normalized)
                                                               THEN f.normalized[i] ELSE <<>>)]]],
       m |-> m]

Thrown(f, m, err) ==
  [f |-> [f EXCEPT !.pc = "done", !.status = "threw", !.error = err], m |-> m]

\* The head of the for loop over the groups: the batch request of group gi,
\* or the end of the loop.
NextGroup(f, m, gi) ==
  IF gi > Len(f.groups) THEN Returned([f EXCEPT !.gi = gi], m)
  ELSE [f |-> [f EXCEPT !.pc = "await_batch", !.gi = gi, !.base = Len(f.vectors),
                        !.log = <<Request("batch", gi, f.groups[gi])>>],
        m |-> m]

\* A loop body that records the dims of vectors[0] whether or not the model
\* has one.
AfterGroupOverwriting(f, m) ==
  LET m2 == IF Len(f.vectors) > 0 THEN [m EXCEPT !.dims = N(Len(f.vectors[1]))] ELSE m
  IN  NextGroup(f, m2, f.gi + 1)

\* The end of the loop's body: dims is inferred from vectors[0] when the
\* model has none; then the next group.
AfterGroup(f, m) ==
  LET infer == Len(f.vectors) > 0 /\ ~IsFinite(m.dims)
      m2 == IF infer THEN [m EXCEPT !.dims = N(Len(f.vectors[1]))] ELSE m
  IN  NextGroup(f, m2, f.gi + 1)

\* A recovery loop that issues the individual requests of the texts left in
\* the group all at once.
NextOneAll(f, m, oi) ==
  IF oi > Len(f.groups[f.gi])
  THEN AfterGroup([f EXCEPT !.vectors = @ \o f.recovered, !.oi = oi], m)
  ELSE [f |-> [f EXCEPT !.pc = "await_one", !.oi = oi,
                        !.log = @ \o [i \in 1..(Len(f.groups[f.gi]) - oi + 1) |->
                                        Request("one", f.gi, <<f.groups[f.gi][oi + i - 1]>>)]],
        m |-> m]

\* `for (const one of group) recovered.push(await embedOne(modelKey, one))`
\* at element oi, then `vectors.push(...recovered)`.
NextOne(f, m, oi) ==
  IF oi > Len(f.groups[f.gi])
  THEN AfterGroup([f EXCEPT !.vectors = @ \o f.recovered, !.oi = oi], m)
  ELSE [f |-> [f EXCEPT !.pc = "await_one", !.oi = oi,
                        !.log = Append(@, Request("one", f.gi, <<f.groups[f.gi][oi]>>))],
        m |-> m]

\* An embed_batch that refuses to embed while the adapter is not loaded.
EmbeddingWhenLoaded(f, m, key) ==
  LET normalized == normalizeBatchInputs(f.items)
      f1 == [f EXCEPT !.modelKey = key, !.normalized = normalized]
  IN  IF state # "loaded" THEN Thrown(f1, m, "notloaded")
      ELSE IF Len(normalized) = 0 THEN Returned(f1, m)
      ELSE IF ChunkLoops(normalized, f.batchSize)
      THEN [f |-> [f1 EXCEPT !.pc = "chunk"], m |-> m]
      ELSE NextGroup([f1 EXCEPT !.groups = ChunkOf(normalized, f.batchSize)], m, 1)

\* embed_batch from `normalizeBatchInputs(coerced)` on, once the model key is
\* known. pc = "chunk" is the call inside a chunk loop that never ends.
Embedding(f, m, key) ==
  LET normalized == normalizeBatchInputs(f.items)
      f1 == [f EXCEPT !.modelKey = key, !.normalized = normalized]
  IN  IF Len(normalized) = 0 THEN Returned(f1, m)
      ELSE IF ChunkLoops(normalized, f.batchSize)
      THEN [f |-> [f1 EXCEPT !.pc = "chunk"], m |-> m]
      ELSE NextGroup([f1 EXCEPT !.groups = ChunkOf(normalized, f.batchSize)], m, 1)

\* ensureModelKey's candidate, trimmed ("" when it is no string).
ConfiguredKey(m) == IF m.model_key.t = "string" THEN Trim(m.model_key.s) ELSE <<>>

\* A get_models that writes the catalog onto this.model.data every time.
SeededModelAlways(m, models) == [m EXCEPT !.provider_models = [set |-> TRUE, keys |-> models]]

\* get_models's write of the catalog onto this.model.data.
SeededModel(m, models) ==
  IF ~m.provider_models.set \/ Len(m.provider_models.keys) = 0
  THEN [m EXCEPT !.provider_models = [set |-> TRUE, keys |-> models]]
  ELSE m

\* An embed_batch without the early return for an empty `items`.
ReturnsAtOnceNever(items) == FALSE

\* `if (coerced.length === 0) return [];` ahead of ensureBatchSize
ReturnsAtOnce(items) == Len(items) = 0

\* embed_batch(items), called by way of the method `via`, up to its first
\* await: of ensureModelKey's resolved promise (a key is configured) or of the
\* GET /v1/models of get_models(true).
EmbedBatchVia(c, via, items) ==
  /\ eb[c].pc \in {"idle", "done"}
  /\ LET f0 == [IdleEmbed EXCEPT !.items = items, !.n = eb[c].n + 1, !.via = via]
     IN  IF ReturnsAtOnce(items)
         THEN /\ eb' = [eb EXCEPT ![c] = [f0 EXCEPT !.pc = "done", !.status = "returned"]]
              /\ UNCHANGED <<model, netCalls>>
         ELSE /\ model' = EnsuredModel(model)
              /\ IF ConfiguredKey(model) # <<>>
                 THEN /\ eb' = [eb EXCEPT ![c] = [f0 EXCEPT !.pc = "await_key",
                                                           !.batchSize = ValidBatchSize(model),
                                                           !.modelKey = ConfiguredKey(model)]]
                      /\ UNCHANGED netCalls
                 ELSE /\ eb' = [eb EXCEPT ![c] = [f0 EXCEPT !.pc = "await_models",
                                                           !.batchSize = ValidBatchSize(model),
                                                           !.now = now]]
                      /\ netCalls' = netCalls + 1
  /\ UNCHANGED <<probe, settings, cachedModels, lastFetchedAt, now, lastRefresh, lm, adVars, plVars>>

\* embed_batch(items)
EmbedBatchCall(c, items) == EmbedBatchVia(c, "embed_batch", items)

\* embed(texts): embed_batch(Array.isArray(texts) ? texts : [texts])
EmbedCall(c, isArray, texts) ==
  EmbedBatchVia(c, "embed", IF isArray THEN texts ELSE <<texts>>)

\* embed_documents(texts): embed_batch(texts)
EmbedDocumentsCall(c, texts) == EmbedBatchVia(c, "embed_documents", texts)

\* embed_query(text): embed_batch([text])
EmbedQueryCall(c, text) == EmbedBatchVia(c, "embed_query", <<text>>)

\* What the method called returns once its embed_batch has returned: embed
\* and embed_query return `items[0] ?? { vec: [] }`.
MethodValue(f) ==
  IF f.via \in {"embed", "embed_query"}
  THEN IF Len(f.value) > 0 THEN f.value[1] ELSE [vec |-> <<>>]
  ELSE f.value

\* The configured key's promise resolved: normalize, chunk, first batch request.
KeyResolved(c) ==
  /\ eb[c].pc = "await_key"
  /\ LET r == Embedding(eb[c], model, eb[c].modelKey)
     IN  eb' = [eb EXCEPT ![c] = r.f] /\ model' = r.m
  /\ UNCHANGED <<probe, catVars, adVars, plVars>>

\* An ensureModelKey that falls back on a built-in model name when the
\* catalog is empty.
FallbackKeyBuiltIn(models) == IF Len(models) > 0 THEN Trim(models[1]) ELSE <<"p">>

\* ensureModelKey's fallback: Object.keys(cachedModels)[0]?.trim() ?? ""
FallbackKey(models) == IF Len(models) > 0 THEN Trim(models[1]) ELSE <<>>

\* The GET /v1/models of ensureModelKey succeeded: listModels replaces the
\* snapshot, get_models seeds provider_models, ensureModelKey adopts and
\* persists the first key or throws; then embed_batch goes on.
EmbedModelsOk(c, body) ==
  /\ eb[c].pc = "await_models"
  /\ cachedModels' = SnapshotOf(body)
  /\ lastFetchedAt' = eb[c].now
  /\ lastRefresh' = [ok |-> TRUE, body |-> body, prev |-> cachedModels]
  /\ LET models == SnapshotOf(body)
         seeded == SeededModel(model, models)
         fallback == FallbackKey(models)
         r == IF fallback = <<>> THEN Thrown(eb[c], seeded, "nomodels")
              ELSE Embedding(eb[c], [seeded EXCEPT !.model_key = Str(fallback)], fallback)
     IN  eb' = [eb EXCEPT ![c] = r.f] /\ model' = r.m
  /\ UNCHANGED <<probe, settings, now, netCalls, lm, adVars, plVars>>

\* The GET /v1/models of ensureModelKey failed: embed_batch rejects.
EmbedModelsFail(c) ==
  /\ eb[c].pc = "await_models"
  /\ eb' = [eb EXCEPT ![c] = Thrown(eb[c], model, "fetch").f]
  /\ UNCHANGED <<probe, catVars, model, adVars, plVars>>

\* The batch request returned one embedding per text, in the texts' order.
BatchOk(c) ==
  /\ eb[c].pc = "await_batch"
  /\ LET f == eb[c]
         group == f.groups[f.gi]
         embeddings == [i \in 1..Len(group) |-> Vec(group[i])]
         r == AfterGroup([f EXCEPT !.log = Answer(@, "ok"),
                                   !.vectors = @ \o embeddings], model)
     IN  eb' = [eb EXCEPT ![c] = r.f] /\ model' = r.m
  /\ UNCHANGED <<probe, catVars, adVars, plVars>>

\* The batch request returned another number of embeddings than texts: the
\* group is embedded one text at a time, inside the try block.
BatchCount(c) ==
  /\ eb[c].pc = "await_batch"
  /\ LET r == NextOne([eb[c] EXCEPT !.log = Answer(@, "count"),
                                    !.recovered = <<>>, !.inTry = TRUE], model, 1)
     IN  eb' = [eb EXCEPT ![c] = r.f] /\ model' = r.m
  /\ UNCHANGED <<probe, catVars, adVars, plVars>>

\* A catch block that goes on with the vectors the try block had recovered.
CaughtKeepingRecovered(f, m) == NextOne([f EXCEPT !.inTry = FALSE], m, 1)

\* A catch block that has no fallback.
CaughtRethrowing(f, m) == Thrown(f, m, "fail")

\* The catch block: the group is embedded one text at a time.
Caught(f, m) == NextOne([f EXCEPT !.recovered = <<>>, !.inTry = FALSE], m, 1)

\* The batch request failed (fetchJson rejected, or an embedding is no array).
BatchFail(c) ==
  /\ eb[c].pc = "await_batch"
  /\ LET r == Caught([eb[c] EXCEPT !.log = Answer(@, "fail")], model)
     IN  eb' = [eb EXCEPT ![c] = r.f] /\ model' = r.m
  /\ UNCHANGED <<probe, catVars, adVars, plVars>>

\* What embed_batch does with an error thrown by embedOne: inside the try
\* block the catch block takes it; inside the catch block it propagates.
OneThrew(f, m, err) == IF f.inTry THEN Caught(f, m) ELSE Thrown(f, m, err)

\* embedOne threw because its request failed (fetchJson rejected, or an
\* embedding is no array).
OneFail(c, err) ==
  /\ eb[c].pc = "await_one"
  /\ LET r == OneThrew([eb[c] EXCEPT !.log = Answer(@, err)], model, err)
     IN  eb' = [eb EXCEPT ![c] = r.f] /\ model' = r.m
  /\ UNCHANGED <<probe, catVars, adVars, plVars>>

\* An embedOne that answers a response without embeddings with a zero vector.
embedOneZeroFilled(embeddings) ==
  IF Len(embeddings) = 0 THEN [threw |-> FALSE, vec |-> <<0>>]
  ELSE [threw |-> FALSE, vec |-> embeddings[1]]

\* embedOne, from the embeddings extracted from its response:
\* `if (!embeddings[0]) throw ...; return embeddings[0]`
embedOne(embeddings) ==
  IF Len(embeddings) = 0 THEN [threw |-> TRUE, vec |-> <<>>]
  ELSE [threw |-> FALSE, vec |-> embeddings[1]]

\* The numbers of embeddings the response to an individual request carries.
OneCounts == {0, 1, 2}

\* The individual request was answered with `count` embeddings of its text:
\* embedOne returns the first, or throws ("empty") when there is none.
OneAnswered(c, count) ==
  /\ eb[c].pc = "await_one"
  /\ LET f == eb[c]
         text == f.groups[f.gi][f.oi]
         one == embedOne([j \in 1..count |-> Vec(text)])
         r == IF one.threw
              THEN OneThrew([f EXCEPT !.log = Answer(@, "empty")], model, "empty")
              ELSE NextOne([f EXCEPT !.log = Answer(@, "ok"),
                                     !.recovered = Append(@, one.vec)], model, f.oi + 1)
     IN  eb' = [eb EXCEPT ![c] = r.f] /\ model' = r.m
  /\ UNCHANGED <<probe, catVars, adVars, plVars>>

\* ------------------------------------------------- the adapter's lifecycle

\* The number of get_models / load calls a caller makes in a behaviour.
MaxOps == 2

\* The operations that fetch the catalog for the host.
LifecycleOps == {"get_models", "load"}

\* load's `this.state = "loaded"` after `await this.get_models(...)`.
StateAfter(op) == IF op = "load" THEN "loaded" ELSE state

\* get_models(refresh) or load(refresh), up to the return of the cached
\* snapshot (seeded onto the model; load marks the adapter loaded) or the
\* await of listModels's GET /v1/models.
GetModelsCall(c, op, refresh) ==
  /\ gm[c].pc \in {"idle", "done"}
  /\ gm[c].n < MaxOps
  /\ IF UseCached(refresh, now)
     THEN /\ gm' = [gm EXCEPT ![c] = [pc |-> "done", op |-> op, refresh |-> refresh,
                                      now |-> now, status |-> "returned",
                                      value |-> cachedModels, n |-> gm[c].n + 1]]
          /\ model' = SeededModel(model, cachedModels)
          /\ state' = StateAfter(op)
          /\ UNCHANGED netCalls
     ELSE /\ gm' = [gm EXCEPT ![c] = [pc |-> "await_models", op |-> op, refresh |-> refresh,
                                      now |-> now, status |-> "none",
                                      value |-> <<>>, n |-> gm[c].n + 1]]
          /\ netCalls' = netCalls + 1
          /\ UNCHANGED <<model, state>>
  /\ UNCHANGED <<probe, settings, cachedModels, lastFetchedAt, now, lastRefresh, lm, eb, atUnload, plVars>>

\* The GET /v1/models of get_models succeeded: listModels replaces the
\* snapshot, get_models seeds provider_models, load marks the adapter loaded.
GetModelsOk(c, body) ==
  /\ gm[c].pc = "await_models"
  /\ cachedModels' = SnapshotOf(body)
  /\ lastFetchedAt' = gm[c].now
  /\ lastRefresh' = [ok |-> TRUE, body |-> body, prev |-> cachedModels]
  /\ model' = SeededModel(model, SnapshotOf(body))
  /\ state' = StateAfter(gm[c].op)
  /\ gm' = [gm EXCEPT ![c].pc = "done", ![c].status = "returned",
                      ![c].value = SnapshotOf(body)]
  /\ UNCHANGED <<probe, settings, now, netCalls, lm, eb, atUnload, plVars>>

\* A load that marks the adapter loaded although its catalog request failed.
GetModelsFailLoaded(c) ==
  /\ gm[c].pc = "await_models"
  /\ gm' = [gm EXCEPT ![c].pc = "done", ![c].status = "threw"]
  /\ state' = StateAfter(gm[c].op)
  /\ UNCHANGED <<probe, catVars, ebVars, atUnload, plVars>>

\* The GET /v1/models of get_models failed: get_models, and load, reject.
GetModelsFail(c) ==
  /\ gm[c].pc = "await_models"
  /\ gm' = [gm EXCEPT ![c].pc = "done", ![c].status = "threw"]
  /\ UNCHANGED <<probe, catVars, ebVars, state, atUnload, plVars>>

\* No call under way.
NoCall == [n |-> 0, gi |-> 0]

\* The embed_batch calls that are under way: the call's number and the group
\* it is at.
InFlightCalls ==
  [c \in DOMAIN eb |-> IF eb[c].pc \in {"idle", "done"} THEN NoCall
                        ELSE [n |-> eb[c].n, gi |-> eb[c].gi]]

\* An unload that makes the calls under way fail.
UnloadCancelling ==
  /\ state' = "unloaded"
  /\ atUnload' = InFlightCalls
  /\ eb' = [c \in DOMAIN eb |->
              IF eb[c].pc \in {"idle", "done"} THEN eb[c]
              ELSE [eb[c] EXCEPT !.pc = "done", !.status = "threw", !.error = "cancelled"]]
  /\ UNCHANGED <<probe, catVars, model, gm, plVars>>

\* unload(): `this.state = "unloaded"`
Unload ==
  /\ state' = "unloaded"
  /\ atUnload' = InFlightCalls
  /\ UNCHANGED <<probe, catVars, ebVars, gm, plVars>>

\* ------------------------------------------------------------- the plugin

\* main.ts ADAPTER_KEYS, in the order the loops write them.
ADAPTER_KEYS == <<"lm_studio", "lmstudio", "lm-studio">>

\* The keys of provider entries that /studio/i matches.
StudioKeys == Range(ADAPTER_KEYS) \cup {"studio_pro"}

\* The adapter registries of the env that registerAdapterClass looks for: two
\* of the places of its list.
AdapterRegistries == {"embedding_models.adapters", "smart_sources.embed_model.adapters"}

\* A registry that is no record (missing), and a record as the host makes it:
\* `keys` are the adapter keys that map to LmStudioEmbeddingAdapter.
Absent == [present |-> FALSE, keys |-> {}]
Fresh == [present |-> TRUE, keys |-> {}]

\* The changes the host makes to the registries of an env it has set up.
MaxHostChanges == 2

\* The env before Smart Connections has made it. stage: "absent" (no plugin
\* or no env yet), "models" (env.embedding_models is there, a providers
\* registry is not), "ready" (findProvidersRegistry finds a registry).
\* providers: the entries of that registry in insertion order; alt:
\* env.embedding_models.providers when it is another record.
NoEnv ==
  [stage |-> "absent", providers |-> <<>>, alt |-> Absent,
   adapters |-> [r \in AdapterRegistries |-> Absent], changes |-> 0]

\* A provider entry: its key, its class ("ours" is LmStudioEmbeddingAdapter),
\* and whether its name or label includes "lm studio".
Entry(key, cls, named) == [key |-> key, cls |-> cls, named |-> named]

\* The providers registries the host makes: without an LM Studio entry; with
\* its own (PRO) entry under lmstudio; with an entry under another key that
\* /studio/i matches; with an entry that only its name tells.
HostProviders ==
  {<<Entry("transformers", "other", FALSE)>>,
   <<Entry("transformers", "other", FALSE), Entry("lmstudio", "other", TRUE)>>,
   <<Entry("studio_pro", "other", FALSE)>>,
   <<Entry("local", "other", TRUE)>>}

HasKey(entries, k) == \E i \in 1..Len(entries) : entries[i].key = k

\* providers[k]?.class
ClassAt(entries, k) ==
  IF HasKey(entries, k)
  THEN (CHOOSE e \in Range(entries) : e.key = k).cls
  ELSE "none"

\* registerLmStudioProvider's targetKey: the first key that is an adapter key,
\* else the first that /studio/i matches, else the first entry named
\* "lm studio", else "lm_studio".
TargetKey(entries) ==
  LET exact == SelectSeq(entries, LAMBDA e : e.key \in Range(ADAPTER_KEYS))
      studio == SelectSeq(entries, LAMBDA e : e.key \in StudioKeys)
      named == SelectSeq(entries, LAMBDA e : e.named)
  IN  IF exact # <<>> THEN exact[1].key
      ELSE IF studio # <<>> THEN studio[1].key
      ELSE IF named # <<>> THEN named[1].key
      ELSE "lm_studio"

\* providers[k] = providerConfig
Put(entries, k) ==
  IF HasKey(entries, k)
  THEN [i \in 1..Len(entries) |->
          IF entries[i].key = k THEN Entry(k, "ours", TRUE) ELSE entries[i]]
  ELSE Append(entries, Entry(k, "ours", TRUE))

\* `for (const key of ADAPTER_KEYS) providers[key] = providerConfig`
PutAll(entries) == Put(Put(Put(entries, ADAPTER_KEYS[1]), ADAPTER_KEYS[2]), ADAPTER_KEYS[3])

\* A registry that is a record gets the class under the three keys.
WithKeys(reg) == IF reg.present THEN [reg EXCEPT !.keys = Range(ADAPTER_KEYS)] ELSE reg

\* registerAdapterClass(env)
registerAdapterClass(e) ==
  [e EXCEPT !.adapters = [r \in AdapterRegistries |-> WithKeys(e.adapters[r])]]

\* registerLmStudioProvider(sc, env, settings) on an env with a providers
\* registry: it returns when the target entry has the class already.
registerLmStudioProvider(e) ==
  IF ClassAt(e.providers, TargetKey(e.providers)) = "ours" THEN e
  ELSE registerAdapterClass([e EXCEPT !.providers = PutAll(@), !.alt = WithKeys(@)])

\* The bootstrap() calls of onload: the one of the layout-ready callback, and
\* the fallback.
BootCalls == {"layout", "fallback"}

\* The callers of listModels(true) in main.ts: tryEarlyRegistration's warm-up
\* and the two bootstrap calls.
PluginCallers == {"early"} \cup BootCalls

\* The plugin before onload. regs, warmups and notices are history: the
\* registerLmStudioProvider calls that returned, the listModels(true) calls,
\* and the "provider registered" notices so far; last names the handler that
\* ran last.
NewPlugin ==
  [loaded |-> FALSE, unloaded |-> FALSE, bootstrapped |-> FALSE, interval |-> "null",
   layout |-> FALSE, regs |-> 0, warmups |-> 0, notices |-> 0, last |-> "none"]

NoPlugin ==
  /\ env = NoEnv
  /\ plugin = NewPlugin
  /\ boot = [b \in BootCalls |-> "idle"]

\* What the handlers of main.ts read and write.
Cur == [env |-> env, plugin |-> plugin, boot |-> boot, lm |-> lm, netCalls |-> netCalls]

Becomes(st) ==
  /\ env' = st.env
  /\ plugin' = st.plugin
  /\ boot' = st.boot
  /\ lm' = st.lm
  /\ netCalls' = st.netCalls

\* listModels(true) up to its await of fetchJson: a forced call always fetches.
Fetching(f, t) ==
  [pc |-> "await_models", refresh |-> TRUE, now |-> t, fetched |-> TRUE, resp |-> "none",
   status |-> "none", value |-> <<>>, n |-> f.n + 1]

\* tryEarlyRegistration(): nothing without a providers registry; else the
\* provider is registered, bootstrapped is set, the interval is cleared and
\* the catalog is warmed in the background.
tryEarlyRegistration(st) ==
  IF st.env.stage # "ready" THEN st
  ELSE [st EXCEPT !.env = registerLmStudioProvider(@),
                  !.plugin.bootstrapped = TRUE,
                  !.plugin.interval = "null",
                  !.plugin.regs = @ + 1,
                  !.plugin.warmups = @ + 1,
                  !.lm["early"] = Fetching(@, now),
                  !.netCalls = @ + 1]

\* bootstrap() from the return of waitForSmartConnectionsEnv on, up to its
\* await of listModels(true): registerLmStudioProvider throws without a
\* providers registry.
EnvFound(st, b) ==
  IF st.env.stage # "ready" THEN [st EXCEPT !.boot[b] = "threw"]
  ELSE [st EXCEPT !.env = registerLmStudioProvider(@),
                  !.plugin.regs = @ + 1,
                  !.plugin.warmups = @ + 1,
                  !.lm[b] = Fetching(@, now),
                  !.netCalls = @ + 1,
                  !.boot[b] = "await_list"]

\* bootstrap(): `if (this.bootstrapped) return;`, then the wait for the env.
bootstrap(st, b) ==
  IF st.plugin.bootstrapped THEN [st EXCEPT !.boot[b] = "skipped"]
  ELSE IF st.env.stage = "absent" THEN [st EXCEPT !.boot[b] = "waiting"]
  ELSE EnvFound(st, b)

\* onload() after `await this.loadData()`: the settings are applied, the early
\* registration is tried, the interval is set, bootstrap is called by the
\* layout-ready callback when the layout is ready already (layoutNow), and
\* by the fallback.
OnLoad(layoutNow) ==
  /\ ~plugin.loaded
  /\ settings' = [settings EXCEPT !.batchSize = N(DefaultBatchSize * Den)]
  /\ LET st0 == [Cur EXCEPT !.plugin.loaded = TRUE, !.plugin.last = "onload"]
         st1 == tryEarlyRegistration(st0)
         st2 == [st1 EXCEPT !.plugin.interval = "active"]
         st3 == IF layoutNow THEN bootstrap([st2 EXCEPT !.plugin.layout = TRUE], "layout")
                ELSE st2
     IN  Becomes(bootstrap(st3, "fallback"))
  /\ UNCHANGED <<probe, cachedModels, lastFetchedAt, now, lastRefresh, ebVars, adVars>>

\* The layout-ready callback: bootstrap().
LayoutReady ==
  /\ plugin.loaded /\ ~plugin.layout
  /\ Becomes(bootstrap([Cur EXCEPT !.plugin.layout = TRUE, !.plugin.last = "layout"], "layout"))
  /\ UNCHANGED <<probe, settings, cachedModels, lastFetchedAt, now, lastRefresh, ebVars, adVars>>

\* The callback of the 200 ms interval.
IntervalTick ==
  /\ plugin.interval = "active"
  /\ LET st == [Cur EXCEPT !.plugin.last = "tick"]
     IN  IF plugin.bootstrapped THEN Becomes([st EXCEPT !.plugin.interval = "null"])
         ELSE Becomes(tryEarlyRegistration(st))
  /\ UNCHANGED <<probe, settings, cachedModels, lastFetchedAt, now, lastRefresh, ebVars, adVars>>

\* waitForSmartConnectionsEnv found the plugin, its env and a providers
\* registry or env.embedding_models: bootstrap goes on.
BootstrapEnvFound(b) ==
  /\ boot[b] = "waiting"
  /\ env.stage # "absent"
  /\ Becomes(EnvFound([Cur EXCEPT !.plugin.last = b], b))
  /\ UNCHANGED <<probe, settings, cachedModels, lastFetchedAt, now, lastRefresh, ebVars, adVars>>

\* waitForSmartConnectionsEnv timed out: bootstrap rejects.
BootstrapTimeout(b) ==
  /\ boot[b] = "waiting"
  /\ env.stage = "absent"
  /\ boot' = [boot EXCEPT ![b] = "threw"]
  /\ plugin' = [plugin EXCEPT !.last = b]
  /\ UNCHANGED <<probe, catVars, ebVars, adVars, env>>

\* bootstrap's listModels(true) returned the catalog: bootstrapped is set and
\* the notice is shown.
BootstrapListed(b, body) ==
  /\ boot[b] = "await_list"
  /\ cachedModels' = SnapshotOf(body)
  /\ lastFetchedAt' = lm[b].now
  /\ lastRefresh' = [ok |-> TRUE, body |-> body, prev |-> cachedModels]
  /\ lm' = [lm EXCEPT ![b].pc = "done", ![b].resp = "ok", ![b].status = "returned",
                      ![b].value = SnapshotOf(body)]
  /\ plugin' = [plugin EXCEPT !.bootstrapped = TRUE, !.notices = @ + 1, !.last = b]
  /\ boot' = [boot EXCEPT ![b] = "done"]
  /\ UNCHANGED <<probe, settings, now, netCalls, ebVars, adVars, env>>

\* bootstrap's listModels(true) failed: the error is logged, bootstrapped is
\* set and the notice is shown.
BootstrapListFailed(b) ==
  /\ boot[b] = "await_list"
  /\ lm' = [lm EXCEPT ![b].pc = "done", ![b].resp = "fail", ![b].status = "threw"]
  /\ plugin' = [plugin EXCEPT !.bootstrapped = TRUE, !.notices = @ + 1, !.last = b]
  /\ boot' = [boot EXCEPT ![b] = "done"]
  /\ UNCHANGED <<probe, settings, cachedModels, lastFetchedAt, now, netCalls, lastRefresh,
                 ebVars, adVars, env>>

\* onunload(): the interval is cleared.
OnUnload ==
  /\ plugin.loaded /\ ~plugin.unloaded
  /\ plugin' = [plugin EXCEPT !.unloaded = TRUE, !.interval = "null", !.last = "onunload"]
  /\ UNCHANGED <<probe, catVars, ebVars, adVars, env, boot>>

\* Smart Connections makes its env: with or without a providers registry,
\* with some of its adapter registries.
HostCreatesEnv(stage, entries, alt, present) ==
  /\ env.stage = "absent"
  /\ env' = [env EXCEPT !.stage = stage,
                        !.providers = IF stage = "ready" THEN entries ELSE <<>>,
                        !.alt = alt,
                        !.adapters = [r \in AdapterRegistries |->
                                        IF r \in present THEN Fresh ELSE Absent]]
  /\ UNCHANGED <<probe, catVars, ebVars, adVars, plugin, boot>>

\* Smart Connections adds the providers registry to its env.
HostAddsProviders(entries) ==
  /\ env.stage = "models"
  /\ env' = [env EXCEPT !.stage = "ready", !.providers = entries]
  /\ UNCHANGED <<probe, catVars, ebVars, adVars, plugin, boot>>

\* Smart Connections makes an adapter registry anew: one that was missing
\* appears, one that was there is replaced.
HostSetsRegistry(r) ==
  /\ env.stage # "absent"
  /\ env.changes < MaxHostChanges
  /\ env' = [env EXCEPT !.adapters[r] = Fresh, !.changes = @ + 1]
  /\ UNCHANGED <<probe, catVars, ebVars, adVars, plugin, boot>>

\* Smart Connections makes its providers registry anew.
HostReplacesProviders(entries) ==
  /\ env.stage = "ready"
  /\ env.changes < MaxHostChanges
  /\ env' = [env EXCEPT !.providers = entries, !.changes = @ + 1]
  /\ UNCHANGED <<probe, catVars, ebVars, adVars, plugin, boot>>

\* ---------------------------------------------------------- specifications

CatInit ==
  /\ cachedModels = <<>>
  /\ lastFetchedAt = 0
  /\ now = 2 * FreshnessMs
  /\ netCalls = 0
  /\ lastRefresh = [ok |-> FALSE, body |-> [array |-> FALSE, data |-> <<>>], prev |-> <<>>]
  /\ lm = [c \in {1} |-> IdleFrame]

\* A model configuration without key, dims, batch sizes or provider models.
BareModel ==
  [model_key |-> Undef, dims |-> NUndef, batch_size |-> NUndef, max_batch_size |-> NUndef,
   provider_models |-> [set |-> FALSE, keys |-> <<>>]]

DefaultSettings == [batchSize |-> N(DefaultBatchSize * Den)]

\* A caller's frame of get_models or load: the operation (op), the locals of
\* its listModels call (refresh, now), how it ended (status, value), the
\* number of the caller's calls (n).
IdleOp ==
  [pc |-> "idle", op |-> "none", refresh |-> FALSE, now |-> 0,
   status |-> "none", value |-> <<>>, n |-> 0]

\* A new adapter: `state: "unloaded" | "loaded" = "unloaded"`, no operation
\* under way.
NewAdapter ==
  /\ state = "unloaded"
  /\ gm = [c \in {1} |-> IdleOp]
  /\ atUnload = [c \in DOMAIN eb |-> [n |-> 0, gi |-> 0]]

NoEmbed ==
  /\ settings = DefaultSettings
  /\ model = BareModel
  /\ eb = [c \in {1} |-> IdleEmbed]
  /\ NewAdapter

NormInit ==
  /\ probe \in {[item |-> it, done |-> FALSE, text |-> <<>>, norm |-> <<>>] : it \in ProbeItems}
  /\ CatInit
  /\ NoEmbed
  /\ NoPlugin

NormNext == Coerce

SpecNorm == NormInit /\ [][NormNext]_vars

CatalogInit ==
  /\ probe = NoProbe
  /\ CatInit
  /\ NoEmbed
  /\ NoPlugin

CatalogNext ==
  \/ \E c \in DOMAIN lm, refresh \in BOOLEAN : ListModelsCall(c, refresh)
  \/ \E c \in DOMAIN lm, body \in ModelsBodies : ListModelsOk(c, body)
  \/ \E c \in DOMAIN lm : ListModelsFail(c)
  \/ Tick

SpecCatalog == CatalogInit /\ [][CatalogNext]_vars

\* The items handed to embed_batch: a string, an object with text to trim,
\* an object whose text is blank.
EmbedItems ==
  {Prim(Str(<<"h", "e", "l", "l", "o">>)),
   Obj(With("text", Str(<<" ", "b", " ">>))),
   Obj(With("embed_input", Str(<<" ", " ">>)))}

\* settings.batchSize: the default, or what the settings tab stored
\* (Math.max(1, n) of a finite n).
SettingsBatchSizes == {N(DefaultBatchSize * Den), N(2 * Den)}

\* this.model.data.batch_size as the host hands it over.
ModelBatchSizes == {NUndef, N(0), N(1), N(Den), N(Den + 1)}

\* A dimensionality no embedding of the server has.
KnownDims == N(3)

\* this.model.data.dims as the host hands it over: missing, or a number.
ModelDims == {NUndef, KnownDims}

\* The GET /v1/models bodies the server answers ensureModelKey with: no data
\* array, one model, two models.
EmbedBodies ==
  {[array |-> FALSE, data |-> <<>>],
   [array |-> TRUE, data |-> <<Str(<<"p">>)>>],
   [array |-> TRUE, data |-> <<Str(<<" ", "q", " ">>), Str(<<"p">>)>>]}

Init ==
  /\ probe = NoProbe
  /\ CatInit
  /\ settings \in {[batchSize |-> b] : b \in SettingsBatchSizes}
  /\ model \in {[BareModel EXCEPT !.model_key = k, !.batch_size = b, !.dims = d] :
                  k \in {Undef, Str(<<"p">>)}, b \in ModelBatchSizes, d \in ModelDims}
  /\ eb = [c \in {1} |-> IdleEmbed]
  /\ NewAdapter
  /\ NoPlugin

Next ==
  \/ \E c \in DOMAIN eb, items \in SeqsUpTo(EmbedItems, MaxItems) :
        eb[c].pc = "idle" /\ EmbedBatchCall(c, items)
  \/ \E c \in DOMAIN eb : KeyResolved(c)
  \/ \E c \in DOMAIN eb, body \in EmbedBodies : EmbedModelsOk(c, body)
  \/ \E c \in DOMAIN eb : EmbedModelsFail(c)
  \/ \E c \in DOMAIN eb : BatchOk(c)
  \/ \E c \in DOMAIN eb : BatchCount(c)
  \/ \E c \in DOMAIN eb : BatchFail(c)
  \/ \E c \in DOMAIN eb, count \in OneCounts : OneAnswered(c, count)
  \/ \E c \in DOMAIN eb : OneFail(c, "fail")

\* One embed_batch call on an adapter whose model configuration the host, or
\* an earlier call, has left in any of the states of Init.
Spec == Init /\ [][Next]_vars

\* The list handed to embed_batch while the host drives the lifecycle.
LifecycleItems ==
  {<<Prim(Str(<<"h", "e", "l", "l", "o">>)), Obj(With("text", Str(<<" ", "b", " ">>)))>>}

\* this.model.data.provider_models as the host hands it over: missing, empty,
\* or holding a model of an earlier catalog.
ProviderModels ==
  {[set |-> FALSE, keys |-> <<>>], [set |-> TRUE, keys |-> <<>>],
   [set |-> TRUE, keys |-> << <<"h">> >>]}

LifecycleInit ==
  /\ probe = NoProbe
  /\ CatInit
  /\ settings = DefaultSettings
  /\ model \in {[BareModel EXCEPT !.model_key = k, !.batch_size = N(Den),
                                   !.provider_models = pm] :
                  k \in {Undef, Str(<<"p">>)}, pm \in ProviderModels}
  /\ eb = [c \in {1} |-> IdleEmbed]
  /\ NewAdapter
  /\ NoPlugin

LifecycleNext ==
  \/ \E c \in DOMAIN eb, items \in LifecycleItems :
        eb[c].pc = "idle" /\ EmbedBatchCall(c, items)
  \/ \E c \in DOMAIN eb, items \in LifecycleItems :
        eb[c].pc = "idle" /\ EmbedDocumentsCall(c, items)
  \/ \E c \in DOMAIN eb, items \in LifecycleItems :
        eb[c].pc = "idle" /\ EmbedCall(c, FALSE, items[1])
  \/ \E c \in DOMAIN eb, items \in LifecycleItems :
        eb[c].pc = "idle" /\ EmbedQueryCall(c, items[2])
  \/ \E c \in DOMAIN eb : KeyResolved(c)
  \/ \E c \in DOMAIN eb, body \in EmbedBodies : EmbedModelsOk(c, body)
  \/ \E c \in DOMAIN eb : EmbedModelsFail(c)
  \/ \E c \in DOMAIN eb : BatchOk(c)
  \/ \E c \in DOMAIN eb : BatchCount(c)
  \/ \E c \in DOMAIN eb : BatchFail(c)
  \/ \E c \in DOMAIN eb, count \in OneCounts : OneAnswered(c, count)
  \/ \E c \in DOMAIN eb : OneFail(c, "fail")
  \/ \E c \in DOMAIN gm, op \in LifecycleOps, refresh \in BOOLEAN : GetModelsCall(c, op, refresh)
  \/ \E c \in DOMAIN gm, body \in EmbedBodies : GetModelsOk(c, body)
  \/ \E c \in DOMAIN gm : GetModelsFail(c)
  \/ Unload

\* One embedding call (embed_batch, embed_documents, embed or embed_query) on
\* an adapter whose host meanwhile calls get_models, load and unload.
SpecLifecycle == LifecycleInit /\ [][LifecycleNext]_vars

\* The number of embed_batch calls a caller makes while another caller's
\* calls are under way.
MaxEmbedCalls == 2

\* The list each of the overlapping calls is given.
OverlapItems == {<<Prim(Str(<<"h", "e", "l", "l", "o">>))>>}

OverlapInit ==
  /\ probe = NoProbe
  /\ CatInit
  /\ settings = DefaultSettings
  /\ model = BareModel
  /\ eb = [c \in {1, 2} |-> IdleEmbed]
  /\ NewAdapter
  /\ NoPlugin

OverlapNext ==
  \/ \E c \in DOMAIN eb, items \in OverlapItems :
        eb[c].n < MaxEmbedCalls /\ EmbedBatchCall(c, items)
  \/ \E c \in DOMAIN eb : KeyResolved(c)
  \/ \E c \in DOMAIN eb, body \in EmbedBodies : EmbedModelsOk(c, body)
  \/ \E c \in DOMAIN eb : EmbedModelsFail(c)
  \/ \E c \in DOMAIN eb : BatchOk(c)
  \/ \E c \in DOMAIN eb : BatchCount(c)
  \/ \E c \in DOMAIN eb : BatchFail(c)
  \/ \E c \in DOMAIN eb, count \in OneCounts : OneAnswered(c, count)
  \/ \E c \in DOMAIN eb : OneFail(c, "fail")

\* Two callers of embed_batch on one adapter, neither waiting for the other:
\* a caller starts its call whenever its own earlier call has ended.
SpecOverlap == OverlapInit /\ [][OverlapNext]_vars

\* setLmStudioSettings(next): `settings = { ...settings, ...next }`. next.has
\* tells whether `next` has the property batchSize; a property that is there
\* replaces the stored one whatever its value.
setLmStudioSettings(next) ==
  /\ settings' = IF next.has THEN [settings EXCEPT !.batchSize = next.v] ELSE settings
  /\ UNCHANGED <<probe, cachedModels, lastFetchedAt, now, netCalls, lastRefresh, lm,
                 ebVars, adVars, plVars>>

\* The values a batch size is given as: missing, NaN or no number, 0, -1,
\* 1.5, 2.
SizeValues == {NUndef, NaN, N(0), N(-Den), N(Den + 1), N(2 * Den)}

\* The arguments of setLmStudioSettings: without batchSize, or with one.
SettingsUpdates == {[has |-> FALSE, v |-> NUndef]} \cup {[has |-> TRUE, v |-> b] : b \in SizeValues}

\* The items of the lists handed to embed_batch under the sizes above.
SizesItems ==
  {Prim(Str(<<"h", "e", "l", "l", "o">>)), Obj(With("text", Str(<<" ", "b", " ">>)))}

SizesInit ==
  /\ probe = NoProbe
  /\ CatInit
  /\ settings = DefaultSettings
  /\ model \in {[BareModel EXCEPT !.model_key = k, !.batch_size = b] :
                  k \in {Undef, Str(<<"p">>)}, b \in SizeValues}
  /\ eb = [c \in {1} |-> IdleEmbed]
  /\ NewAdapter
  /\ NoPlugin

SizesNext ==
  \/ \E next \in SettingsUpdates :
        (\A c \in DOMAIN eb : eb[c].pc = "idle") /\ setLmStudioSettings(next)
  \/ \E c \in DOMAIN eb, items \in SeqsUpTo(SizesItems, MaxItems) :
        eb[c].pc = "idle" /\ EmbedBatchCall(c, items)
  \/ \E c \in DOMAIN eb : KeyResolved(c)
  \/ \E c \in DOMAIN eb, body \in EmbedBodies : EmbedModelsOk(c, body)
  \/ \E c \in DOMAIN eb : EmbedModelsFail(c)
  \/ \E c \in DOMAIN eb : BatchOk(c)
  \/ \E c \in DOMAIN eb : BatchCount(c)
  \/ \E c \in DOMAIN eb : BatchFail(c)
  \/ \E c \in DOMAIN eb, count \in OneCounts : OneAnswered(c, count)
  \/ \E c \in DOMAIN eb : OneFail(c, "fail")

\* One embed_batch call after the plugin applied its settings, for every value
\* the configured batch size and the model's batch_size are given as.
SpecSizes == SizesInit /\ [][SizesNext]_vars

RaceInit ==
  /\ probe = NoProbe
  /\ cachedModels = <<>>
  /\ lastFetchedAt = 0
  /\ now = 2 * FreshnessMs
  /\ netCalls = 0
  /\ lastRefresh = [ok |-> FALSE, body |-> [array |-> FALSE, data |-> <<>>], prev |-> <<>>]
  /\ lm = [c \in {1, 2} |-> IdleFrame]
  /\ NoEmbed
  /\ NoPlugin

RaceNext ==
  \/ \E c \in DOMAIN lm, refresh \in BOOLEAN : lm[c].pc = "idle" /\ ListModelsCall(c, refresh)
  \/ \E c \in DOMAIN lm, body \in EmbedBodies : ListModelsOk(c, body)
  \/ \E c \in DOMAIN lm : ListModelsFail(c)
  \/ Tick

\* Two callers of listModels (the warm-up of the early registration, the
\* refresh of bootstrap, the Fetch button), each making one call, neither
\* waiting for the other.
SpecRace == RaceInit /\ [][RaceNext]_vars

\* A step of caller c's call that the event loop takes when it can: the
\* resolved promise of ensureModelKey is continued, or the request the call
\* awaits is answered, fails or is aborted by its timeout.
AnswerStep(c) ==
  \/ KeyResolved(c)
  \/ \E body \in EmbedBodies : EmbedModelsOk(c, body)
  \/ EmbedModelsFail(c)
  \/ BatchOk(c)
  \/ BatchCount(c)
  \/ BatchFail(c)
  \/ \E count \in OneCounts : OneAnswered(c, count)
  \/ OneFail(c, "fail")

\* The lists handed to the call whose end is awaited: none, one and two texts.
FairLists ==
  {<<>>,
   <<Prim(Str(<<"h", "e", "l", "l", "o">>))>>,
   <<Prim(Str(<<"h", "e", "l", "l", "o">>)), Obj(With("text", Str(<<" ", "b", " ">>)))>>}

FairNext ==
  \/ \E next \in SettingsUpdates :
        (\A c \in DOMAIN eb : eb[c].pc = "idle") /\ setLmStudioSettings(next)
  \/ \E c \in DOMAIN eb, items \in FairLists :
        eb[c].pc = "idle" /\ EmbedBatchCall(c, items)
  \/ \E c \in DOMAIN eb : AnswerStep(c)

\* One embed_batch call under every batch size, with every awaited promise
\* settled in the end: fetchJson ends with the response, its error, or the
\* abort of its timeout.
SpecSizesFair ==
  SizesInit /\ [][FairNext]_vars /\ WF_vars(\E c \in DOMAIN eb : AnswerStep(c))

\* The bodies the server answers the warm-up requests with.
PluginBodies ==
  {[array |-> TRUE, data |-> <<Str(<<"p">>)>>]}

PluginInit ==
  /\ probe = NoProbe
  /\ cachedModels = <<>>
  /\ lastFetchedAt = 0
  /\ now = 2 * FreshnessMs
  /\ netCalls = 0
  /\ lastRefresh = [ok |-> FALSE, body |-> [array |-> FALSE, data |-> <<>>], prev |-> <<>>]
  /\ lm = [c \in PluginCallers |-> IdleFrame]
  /\ NoEmbed
  /\ NoPlugin

PluginNext ==
  \/ \E layoutNow \in BOOLEAN : OnLoad(layoutNow)
  \/ LayoutReady
  \/ IntervalTick
  \/ \E b \in BootCalls : BootstrapEnvFound(b)
  \/ \E b \in BootCalls : BootstrapTimeout(b)
  \/ \E b \in BootCalls, body \in PluginBodies : BootstrapListed(b, body)
  \/ \E b \in BootCalls : BootstrapListFailed(b)
  \/ \E body \in PluginBodies : ListModelsOk("early", body)
  \/ ListModelsFail("early")
  \/ OnUnload
  \/ \E stage \in {"models", "ready"}, entries \in HostProviders, alt \in {Absent, Fresh},
        present \in SUBSET AdapterRegistries : HostCreatesEnv(stage, entries, alt, present)
  \/ \E entries \in HostProviders : HostAddsProviders(entries)
  \/ \E r \in AdapterRegistries : HostSetsRegistry(r)
  \/ \E entries \in HostProviders : HostReplacesProviders(entries)

\* One load of the plugin beside Smart Connections, which makes its env
\* before or after the plugin loads and changes its registries as it likes.
SpecPlugin == PluginInit /\ [][PluginNext]_vars

\* ------------------------------------------------------------------ claims

\* The first string among the values at `paths`, in order ("" when none is).
RECURSIVE FirstString(_, _)
FirstString(item, paths) ==
  IF paths = <<>> THEN <<>>
  ELSE IF Get(item, Head(paths)).t = "string" THEN Get(item, Head(paths)).s
  ELSE FirstString(item, Tail(paths))

EightFields ==
  <<"embed_input", "text", "content", "input",
    "data.embed_input", "data.text", "data.content", "data.input">>

\* C7: for a non-string item, coerceToText yields the first string-valued
\* field among embed_input, text, content, input, data.embed_input,
\* data.text, data.content, data.input, passing over non-string values.
C7_FirstStringOfEightFields ==
  (probe.done /\ probe.item.v.t # "string")
    => probe.text = FirstString(probe.item, EightFields)

\* A step in which caller c called listModels.
Called(c) == lm'[c].n = lm[c].n + 1

\* A step in which the request of caller c ended.
Answered(c) == lm[c].pc = "await_models" /\ lm'[c].pc # "await_models"

\* C8: a listModels call issues a GET /v1/models exactly when refresh is set,
\* or the snapshot is empty, or the snapshot is FreshnessMs old or older; a
\* call that issues none returns the snapshot as it is; and a listModels(false)
\* that follows, within the window, a call that fetched a non-empty snapshot
\* issues no request and returns that same snapshot.
C8_FetchIffStaleEmptyOrForced ==
  [][\A c \in DOMAIN lm : Called(c) =>
       /\ netCalls' \in {netCalls, netCalls + 1}
       /\ (netCalls' = netCalls + 1)
            <=> (lm'[c].refresh \/ cachedModels = <<>> \/ now - lastFetchedAt >= FreshnessMs)
       /\ lm'[c].fetched <=> (netCalls' = netCalls + 1)
       /\ netCalls' = netCalls
            => lm'[c].status = "returned" /\ lm'[c].value = cachedModels
       /\ ( /\ lm[c].fetched /\ lm[c].status = "returned" /\ lm[c].value # <<>>
            /\ ~lm'[c].refresh /\ now - lm[c].now < FreshnessMs )
            => netCalls' = netCalls /\ lm'[c].value = lm[c].value
       /\ cachedModels' = cachedModels /\ lastFetchedAt' = lastFetchedAt
    ]_vars

\* Two calls, the second a listModels(false) inside the window: one request.
C8_Witness ==
  /\ lm[1].n = 2 /\ netCalls = 1
  /\ ~lm[1].fetched /\ ~lm[1].refresh
  /\ lm[1].status = "returned" /\ lm[1].value # <<>>
  /\ now > lastFetchedAt

\* C9: a failed refresh makes listModels throw and leaves the snapshot and
\* lastFetchedAt as they were; the two change only in a step in which a
\* request succeeded.
C9_FailedRefreshKeepsCache ==
  [][ /\ \A c \in DOMAIN lm : (Answered(c) /\ lm'[c].resp = "fail") =>
            /\ lm'[c].status = "threw"
            /\ cachedModels' = cachedModels
            /\ lastFetchedAt' = lastFetchedAt
      /\ (cachedModels' # cachedModels \/ lastFetchedAt' # lastFetchedAt) =>
            \E c \in DOMAIN lm :
              Answered(c) /\ lm'[c].resp = "ok" /\ lm'[c].status = "returned"
    ]_vars

\* A refresh failed while a non-empty snapshot was held.
C9_Witness ==
  /\ lm[1].status = "threw" /\ lm[1].resp = "fail"
  /\ cachedModels # <<>>
  /\ lastFetchedAt < lm[1].now

\* The trimmed, non-empty ids of a body's data entries.
UsableIds(body) ==
  {Trim(StringOfId(body.data[i])) : i \in 1..Len(body.data)} \ {<<>>}

\* C10: once a refresh has succeeded, the snapshot's keys are exactly the
\* trimmed non-empty ids of the last successful response (each once), whatever
\* the snapshot before held.
C10_SnapshotIsLastResponse ==
  IF lastRefresh.ok
  THEN /\ Range(cachedModels) = (IF lastRefresh.body.array THEN UsableIds(lastRefresh.body) ELSE {})
       /\ Cardinality(Range(cachedModels)) = Len(cachedModels)
  ELSE cachedModels = <<>>

\* A refresh replaced p by q: the response skipped an entry without id and
\* did not list p.
C10_Witness ==
  /\ lastRefresh.ok
  /\ lastRefresh.prev = << <<"p">> >>
  /\ lastRefresh.body.data = <<Undef, Str(<<" ", "q", " ">>)>>
  /\ cachedModels = << <<"q">> >>

\* The individual requests of a log, and their texts.
IsOne(r) == r.kind = "one"
Ones(log) == SelectSeq(log, IsOne)
OneTexts(log) == [i \in 1..Len(Ones(log)) |-> Ones(log)[i].input[1]]

IsPrefix(a, b) == Len(a) <= Len(b) /\ a = SubSeq(b, 1, Len(a))

\* The group the requests of a frame's log are for.
GroupOf(f) == f.groups[f.log[1].g]

\* The frame is inside the loop over the groups, or left it by return or throw.
InLoop(f) == f.log # <<>>

\* C1: an embed_batch call that returns, returns as many results as it was
\* given items.
C1_OneResultPerItem ==
  \A c \in DOMAIN eb : eb[c].status = "returned" => Len(eb[c].value) = Len(eb[c].items)

\* Three items, the last group by way of a count mismatch, returned.
C1_Witness ==
  /\ eb[1].status = "returned"
  /\ Len(eb[1].items) = 3
  /\ eb[1].log[1].resp = "count"
  /\ Len(eb[1].groups) > 1

\* C2: the i-th result of a call that returns carries the vector the server
\* gives for the i-th normalized input.
C2_ResultsInInputOrder ==
  \A c \in DOMAIN eb : eb[c].status = "returned" =>
    /\ Len(eb[c].normalized) = Len(eb[c].items)
    /\ \A i \in 1..Len(eb[c].items) :
         /\ i <= Len(eb[c].value)
         /\ eb[c].value[i].vec = Vec(eb[c].normalized[i])

\* Three items, not all the same text, a group recovered after an individual
\* request failed inside the try block.
C2_Witness ==
  /\ eb[1].status = "returned"
  /\ Len(eb[1].items) = 3
  /\ eb[1].normalized[2] # eb[1].normalized[3]
  /\ eb[1].log[1].resp = "count"
  /\ \E i \in 1..Len(eb[1].log) : eb[1].log[i].kind = "one" /\ eb[1].log[i].resp = "fail"

\* C3: after a batch response with a wrong count, each text of the group is
\* requested individually once, in input order, and the group adds exactly
\* as many vectors as it has texts.
C3_MismatchOneRequestPerText ==
  \A c \in DOMAIN eb : (InLoop(eb[c]) /\ eb[c].log[1].resp = "count") =>
    /\ IsPrefix(OneTexts(eb[c].log), GroupOf(eb[c]))
    /\ eb[c].status = "returned" =>
         /\ OneTexts(eb[c].log) = GroupOf(eb[c])
         /\ Len(eb[c].vectors) = eb[c].base + Len(GroupOf(eb[c]))

\* A step that answers the individual request of caller c with an embedding,
\* in the catch block of a group whose batch request failed.
OneOkAfterBatchFail(c) ==
  /\ eb[c].pc = "await_one"
  /\ eb[c].log[1].resp = "fail"
  /\ eb'[c] # eb[c]
  /\ eb'[c].status # "threw"

\* C4: when the batch request of a group fails, the call does not fail with
\* it: the texts of the group are requested one by one, in order; while these
\* requests succeed the call goes on, to the next text, then to the batch
\* request of the next group, and after the last group it returns one result
\* per item, in input order.
C4_BatchFailureFallsBack ==
  [][\A c \in DOMAIN eb :
       /\ (eb[c].pc = "await_batch" /\ eb'[c] # eb[c] /\ eb'[c].log[1].resp = "fail"
             /\ eb'[c].gi = eb[c].gi) =>
            /\ eb'[c].status # "threw"
            /\ eb'[c].pc = "await_one"
            /\ OneTexts(eb'[c].log) = <<GroupOf(eb[c])[1]>>
       /\ OneOkAfterBatchFail(c) =>
            LET f == eb[c]
                g == eb'[c]
                k == Len(GroupOf(f))
            IN  /\ OneTexts(f.log) = SubSeq(GroupOf(f), 1, f.oi)
                /\ f.oi < k =>
                     /\ g.pc = "await_one" /\ g.gi = f.gi
                     /\ OneTexts(g.log) = SubSeq(GroupOf(f), 1, f.oi + 1)
                /\ f.oi = k =>
                     /\ g.vectors = f.vectors \o [i \in 1..k |-> Vec(GroupOf(f)[i])]
                     /\ f.gi < Len(f.groups) =>
                          /\ g.pc = "await_batch" /\ g.gi = f.gi + 1
                          /\ g.log = <<Request("batch", g.gi, f.groups[g.gi])>>
                     /\ f.gi = Len(f.groups) =>
                          /\ g.status = "returned"
                          /\ Len(g.value) = Len(f.items)
                          /\ \A i \in 1..Len(f.items) : g.value[i].vec = Vec(f.normalized[i])
    ]_vars

\* A call of three items whose first group's batch request failed went on to
\* a later group and returned.
C4_Witness ==
  /\ eb[1].status = "returned"
  /\ Len(eb[1].items) = 3
  /\ eb[1].gi > 2
  /\ eb[1].log[1].resp = "fail"
  /\ Len(Ones(eb[1].log)) = 2

\* C5: an individual request that fails is the call's last request, and the
\* call throws its error.
C5_IndividualFailurePropagates ==
  \A c \in DOMAIN eb : \A i \in 1..Len(eb[c].log) :
    (eb[c].log[i].kind = "one" /\ eb[c].log[i].resp \in {"fail", "empty"}) =>
      /\ i = Len(eb[c].log)
      /\ eb[c].status = "threw"
      /\ eb[c].error = eb[c].log[i].resp

\* The text an item of EmbedItems carries.
TextOf(item) ==
  IF item.v.t = "string" THEN item.v.s ELSE FirstString(item, EightFields)

\* C6: the normalized list has one text per item, at the item's place: the
\* item's trimmed text, or a single space when that is empty; and no request,
\* batch or individual, carries an empty text.
C6_NormalizedNeverEmpty ==
  \A c \in DOMAIN eb :
    /\ InLoop(eb[c]) =>
         /\ Len(eb[c].normalized) = Len(eb[c].items)
         /\ \A i \in 1..Len(eb[c].items) :
              eb[c].normalized[i] =
                (IF Trim(TextOf(eb[c].items[i])) = <<>> THEN <<" ">>
                 ELSE Trim(TextOf(eb[c].items[i])))
    /\ \A i \in 1..Len(eb[c].log) : \A j \in 1..Len(eb[c].log[i].input) :
         /\ eb[c].log[i].input[j] # <<>>
         /\ eb[c].log[i].input[j] \in Range(eb[c].normalized)
    /\ eb[c].status = "returned" => Len(eb[c].value) = Len(eb[c].normalized)

\* A blank item was sent as a single space, in a batch and individually, and
\* the call returned a result for it.
C6_Witness ==
  /\ eb[1].status = "returned"
  /\ Len(eb[1].items) = 2
  /\ Trim(TextOf(eb[1].items[2])) = <<>>
  /\ eb[1].normalized[2] = <<" ">>
  /\ eb[1].log[1].input = <<eb[1].normalized[1], <<" ">> >>
  /\ \E i \in 1..Len(eb[1].log) : eb[1].log[i].kind = "one" /\ eb[1].log[i].input = << <<" ">> >>

\* A step in which the forced refresh of ensureModelKey, for caller c, succeeded.
KeyRefreshed(c) ==
  /\ eb[c].pc = "await_models"
  /\ eb'[c].pc # "await_models"
  /\ eb'[c].error # "fetch"

\* C11: when no model key is configured and the catalog is empty after the
\* forced refresh, embed_batch on a non-empty input throws the no-models
\* error, has issued no embedding request and persists no key.
C11_NoModelsAvailable ==
  [][\A c \in DOMAIN eb : (KeyRefreshed(c) /\ cachedModels' = <<>>) =>
       /\ ConfiguredKey(model) = <<>> /\ Len(eb[c].items) > 0
       /\ eb'[c].status = "threw" /\ eb'[c].error = "nomodels"
       /\ eb'[c].log = <<>> /\ eb'[c].vectors = <<>>
       /\ model'.model_key = model.model_key
    ]_vars

\* A call on two items without a configured key ended on an empty catalog.
C11_Witness ==
  /\ eb[1].status = "threw" /\ eb[1].error = "nomodels"
  /\ Len(eb[1].items) = 2
  /\ lastRefresh.ok /\ cachedModels = <<>>
  /\ model.model_key = Undef

\* The requests of a frame's log that are in flight.
IsPending(r) == r.resp = "pending"
InFlight(f) == Len(SelectSeq(f.log, IsPending))

\* The frame awaits the response of an embedding request.
AwaitsEmbedding(f) == f.pc \in {"await_batch", "await_one"}

\* C13: a call has at most one embedding request in flight, the one it
\* awaits; every request it has issued is for the group at hand; and the
\* batch request of the next group is issued only in the step that answers
\* the last request of the group before it, all of whose texts then have
\* their vectors.
C13_GroupsStrictlySequential ==
  /\ [](\A c \in DOMAIN eb :
          /\ InFlight(eb[c]) = (IF AwaitsEmbedding(eb[c]) THEN 1 ELSE 0)
          /\ \A i \in 1..Len(eb[c].log) :
                /\ IsPending(eb[c].log[i]) => i = Len(eb[c].log)
                /\ eb[c].log[i].g = eb[c].log[1].g
                /\ (eb[c].log[i].kind = "batch") <=> (i = 1)
          /\ AwaitsEmbedding(eb[c]) => eb[c].log[1].g = eb[c].gi)
  /\ [][\A c \in DOMAIN eb :
         (eb[c].gi >= 1 /\ eb'[c].gi = eb[c].gi + 1) =>
           /\ AwaitsEmbedding(eb[c])
           /\ Len(eb'[c].vectors) = eb[c].base + Len(eb[c].groups[eb[c].gi])
           /\ eb'[c].pc = "await_batch" =>
                eb'[c].log = <<Request("batch", eb[c].gi + 1, eb[c].groups[eb[c].gi + 1])>>
      ]_vars

\* The first group is being recovered text by text, its second individual
\* request in flight, while a second group waits.
C13_Witness ==
  /\ eb[1].pc = "await_one" /\ eb[1].gi = 1 /\ eb[1].oi = 2
  /\ Len(eb[1].groups) = 2
  /\ InFlight(eb[1]) = 1
  /\ Len(eb[1].log) = 3

\* A step in which caller c ends the body of its loop for a group.
GroupCompleted(c) == eb[c].gi >= 1 /\ eb'[c].gi = eb[c].gi + 1

\* C15: the step that completes a group with at least one vector produced so
\* far sets a missing dims to the length of the call's first vector; no other
\* step changes dims, and a dims that is a number is never changed.
C15_DimsInferredOnce ==
  [][ /\ IsFinite(model.dims) => model'.dims = model.dims
      /\ model'.dims # model.dims =>
            \E c \in DOMAIN eb : GroupCompleted(c) /\ Len(eb'[c].vectors) > 0
      /\ \A c \in DOMAIN eb :
            (GroupCompleted(c) /\ Len(eb'[c].vectors) > 0 /\ ~IsFinite(model.dims)) =>
              model'.dims = N(Len(eb'[c].vectors[1]))
    ]_vars

\* A call of two groups returned vectors of two lengths; dims, missing at
\* first, is the length of the first vector.
C15_Witness ==
  /\ eb[1].status = "returned"
  /\ Len(eb[1].groups) >= 2
  /\ model.dims = N(Len(eb[1].value[1].vec))
  /\ model.dims # KnownDims
  /\ \E i \in 1..Len(eb[1].value) : Len(eb[1].value[i].vec) # model.dims.n

\* ceil(n / 4): the least k with 4 * k >= n.
CeilQuarter(n) == CHOOSE k \in 0..n : 4 * k >= n /\ \A j \in 0..n : 4 * j >= n => k <= j

\* C16: the i-th result of a call that returns carries tokens =
\* max(1, ceil(L / 4)) for L the length of the i-th normalized text, which is
\* a positive integer.
C16_TokensEstimate ==
  \A c \in DOMAIN eb : eb[c].status = "returned" =>
    \A i \in 1..Len(eb[c].value) :
      LET L == Len(eb[c].normalized[i])
          tokens == eb[c].value[i].tokens
      IN  /\ i <= Len(eb[c].normalized)
          /\ tokens \in Nat /\ tokens >= 1
          /\ tokens = (IF CeilQuarter(L) > 1 THEN CeilQuarter(L) ELSE 1)

\* A call returned a result of two tokens for a text of five characters and
\* a result of one token for the single-space substitute.
C16_Witness ==
  /\ eb[1].status = "returned"
  /\ \E i, j \in 1..Len(eb[1].value) :
       /\ Len(eb[1].normalized[i]) = 5 /\ eb[1].value[i].tokens = 2
       /\ eb[1].normalized[j] = <<" ">> /\ eb[1].value[j].tokens = 1
       /\ Trim(TextOf(eb[1].items[j])) = <<>>

\* A vector the server gave: it has components, none of them zero.
ServerVector(vec) == Len(vec) > 0 /\ \A j \in 1..Len(vec) : vec[j] # 0

\* A step in which the individual request of caller c was answered with a
\* response without embeddings.
ZeroAnswered(c) ==
  /\ eb[c].pc = "await_one"
  /\ eb'[c] # eb[c]
  /\ Len(eb'[c].log) >= Len(eb[c].log)
  /\ eb'[c].log[Len(eb[c].log)].resp = "empty"

\* C20: an individual request answered without embeddings makes embedOne
\* throw the empty-response error: the step records no vector for the text
\* and does not go on to the next text or return; every vector a call holds,
\* and every vector it returns, is the server's vector for its text, never an
\* empty or a zero-filled one.
C20_EmptyResponseThrows ==
  /\ [](\A c \in DOMAIN eb :
          /\ \A i \in 1..Len(eb[c].vectors) :
                ServerVector(eb[c].vectors[i]) /\ eb[c].vectors[i] = Vec(eb[c].normalized[i])
          /\ \A i \in 1..Len(eb[c].recovered) : ServerVector(eb[c].recovered[i])
          /\ eb[c].status = "returned" =>
                \A i \in 1..Len(eb[c].value) : ServerVector(eb[c].value[i].vec))
  /\ [][\A c \in DOMAIN eb : ZeroAnswered(c) =>
           /\ eb'[c].vectors = eb[c].vectors
           /\ eb'[c].recovered \in {<<>>, eb[c].recovered}
           /\ eb'[c].status # "returned"
           /\ eb'[c].status = "threw" => eb'[c].error = "empty"
           /\ eb'[c].status # "threw" => (eb'[c].pc = "await_one" /\ eb'[c].oi = 1)
      ]_vars

\* A call threw the empty-response error for the second text of a group.
C20_Witness ==
  /\ eb[1].status = "threw" /\ eb[1].error = "empty"
  /\ eb[1].oi = 2
  /\ eb[1].log[Len(eb[1].log)].resp = "empty"
  /\ Len(eb[1].recovered) = 1

\* A step in which caller c started an embedding call.
CallStarted(c) == eb'[c].n = eb[c].n + 1

\* A step in which a load call of caller c returned.
LoadReturned(c) == gm'[c] # gm[c] /\ gm'[c].op = "load" /\ gm'[c].status = "returned"

\* The errors an embedding call ends with: of the catalog request, of the
\* empty catalog, of an individual request.
EmbeddingErrors == {"none", "fetch", "nomodels", "fail", "empty"}

\* C17: the flag does not gate embedding: whatever the state, a call of
\* embed_batch, embed, embed_documents or embed_query on some input goes on to
\* resolve its key and to its first batch request, it fails only with the
\* error of a request or of the empty catalog, and what it returns is the
\* server's vectors for its inputs; no step of such a call changes the state;
\* the state becomes loaded only in the step in which a load returns, which
\* always leaves it loaded, and becomes unloaded only by unload.
C17_StateDoesNotGateEmbedding ==
  /\ [](\A c \in DOMAIN eb :
          /\ eb[c].error \in EmbeddingErrors
          /\ eb[c].status = "returned" =>
                /\ Len(eb[c].value) = Len(eb[c].items)
                /\ \A i \in 1..Len(eb[c].value) : eb[c].value[i].vec = Vec(eb[c].normalized[i])
                /\ eb[c].via \in {"embed", "embed_query"} => MethodValue(eb[c]) = eb[c].value[1])
  /\ [][ /\ \A c \in DOMAIN eb :
             /\ eb'[c] # eb[c] => state' = state
             /\ (CallStarted(c) /\ Len(eb'[c].items) > 0) =>
                  eb'[c].pc \in {"await_key", "await_models"}
             /\ (eb[c].pc = "await_key" /\ eb'[c] # eb[c]) =>
                  /\ eb'[c].pc = "await_batch"
                  /\ eb'[c].log = <<Request("batch", 1, eb'[c].groups[1])>>
         /\ \A c \in DOMAIN gm : LoadReturned(c) => state' = "loaded"
         /\ state' # state =>
              \/ state' = "loaded" /\ \E c \in DOMAIN gm : LoadReturned(c)
              \/ state' = "unloaded" /\ eb' = eb /\ gm' = gm /\ model' = model
      ]_vars

\* An embed_query returned its result on an adapter that was never loaded,
\* and unloaded while the call was under way.
C17_Witness ==
  /\ state = "unloaded"
  /\ \A c \in DOMAIN gm : gm[c].op # "load"
  /\ eb[1].via = "embed_query"
  /\ eb[1].status = "returned"
  /\ MethodValue(eb[1]).vec = Vec(<<"b">>)
  /\ atUnload[1].n = 1

\* C18: the step of unload changes the state and nothing else: the frames of
\* the calls under way, the model and the catalog are as before it; a call
\* that was under way at an unload and returns, returns one result per item,
\* each the server's vector for its input, and fails with no error of unload.
C18_UnloadDoesNotCancel ==
  /\ [](\A c \in DOMAIN eb : (atUnload[c].n > 0 /\ atUnload[c].n = eb[c].n) =>
          /\ eb[c].error \in EmbeddingErrors
          /\ eb[c].status = "returned" =>
                /\ Len(eb[c].value) = Len(eb[c].items)
                /\ \A i \in 1..Len(eb[c].value) : eb[c].value[i].vec = Vec(eb[c].normalized[i]))
  /\ [][(atUnload' # atUnload \/ (state = "loaded" /\ state' = "unloaded")) =>
           /\ state' = "unloaded"
           /\ eb' = eb /\ gm' = gm /\ model' = model
           /\ cachedModels' = cachedModels /\ lastFetchedAt' = lastFetchedAt
           /\ netCalls' = netCalls
      ]_vars

\* unload was called on a loaded adapter while a call of two groups awaited
\* the batch response of its first; the call went on through both groups,
\* recovered the second text by text, and returned two results.
C18_Witness ==
  /\ state = "unloaded"
  /\ \E c \in DOMAIN gm : gm[c].op = "load" /\ gm[c].status = "returned"
  /\ atUnload[1] = [n |-> 1, gi |-> 1]
  /\ eb[1].n = 1 /\ eb[1].status = "returned"
  /\ Len(eb[1].groups) = 2 /\ eb[1].gi = 3
  /\ Len(eb[1].log) = 2
  /\ Len(eb[1].value) = 2

\* The model's provider_models holds models.
Seeded(m) == m.provider_models.set /\ m.provider_models.keys # <<>>

\* A step in which a get_models or load call of caller c returned.
GetModelsReturned(c) == gm'[c] # gm[c] /\ gm'[c].status = "returned"

\* C19: a provider_models that holds models is never changed; a missing or
\* empty one is changed only in a step in which get_models (called by the
\* host, by load, or by ensureModelKey) obtained the catalog, to that catalog;
\* and get_models and load, when they return, have written the catalog they
\* return onto a model whose provider_models was missing or empty.
C19_ProviderModelsSeededOnlyWhenEmpty ==
  [][ /\ Seeded(model) => model'.provider_models = model.provider_models
      /\ model'.provider_models # model.provider_models =>
            /\ model'.provider_models = [set |-> TRUE, keys |-> cachedModels']
            /\ \/ \E c \in DOMAIN gm : GetModelsReturned(c)
               \/ \E c \in DOMAIN eb : KeyRefreshed(c)
      /\ \A c \in DOMAIN gm : (GetModelsReturned(c) /\ ~Seeded(model)) =>
            model'.provider_models = [set |-> TRUE, keys |-> gm'[c].value]
    ]_vars

\* The first get_models seeded the catalog of one model onto a model without
\* provider_models; a second, forced, refresh returned another catalog, and
\* provider_models is as the first left it.
C19_Witness ==
  /\ gm[1].n = 2 /\ gm[1].refresh /\ gm[1].status = "returned"
  /\ lastRefresh.prev = << <<"p">> >>
  /\ cachedModels = << <<"q">>, <<"p">> >>
  /\ model.provider_models = [set |-> TRUE, keys |-> << <<"p">> >>]
  /\ eb[1].pc = "idle"

\* The network requests of the adapter's operations that are in flight.
AwaitsNetwork(f) == f.pc \in {"await_models", "await_batch", "await_one"}
RequestsInFlight ==
  Cardinality({c \in DOMAIN eb : AwaitsNetwork(eb[c])})
    + Cardinality({c \in DOMAIN gm : AwaitsNetwork(gm[c])})

\* C14: the operations of one adapter never have network requests in flight
\* at the same time.
C14_OperationsNeverOverlap == RequestsInFlight <= 1

\* C12: a call on some input without a configured key issues a catalog
\* request; when that brings a catalog with models the call sends the first
\* entry's id with all its requests and stores it as the model's key; a call
\* that finds a key configured issues no catalog request and sends that key;
\* and a key, once stored, is never changed, so that all later calls send it.
C12_AdoptedKeyIsStable ==
  [][ /\ \A c \in DOMAIN eb :
           /\ (CallStarted(c) /\ Len(eb'[c].items) > 0) =>
                IF ConfiguredKey(model) = <<>>
                THEN eb'[c].pc = "await_models" /\ netCalls' = netCalls + 1
                ELSE /\ eb'[c].pc = "await_key" /\ netCalls' = netCalls
                     /\ eb'[c].modelKey = ConfiguredKey(model)
           /\ (KeyRefreshed(c) /\ cachedModels' # <<>>) =>
                /\ eb'[c].modelKey = cachedModels'[1]
                /\ model'.model_key = Str(cachedModels'[1])
                /\ eb'[c].pc = "await_batch"
           /\ (AwaitsEmbedding(eb[c]) /\ eb'[c].n = eb[c].n) => eb'[c].modelKey = eb[c].modelKey
      /\ ConfiguredKey(model) # <<>> => model'.model_key = model.model_key
    ]_vars

\* A batch size that is a finite number above 0.
FinitePositive(v) == IsFinite(v) /\ v.n > 0

\* The adapter's configured default: settings.batchSize ?? 16.
ConfiguredDefault ==
  IF settings.batchSize.k = "undefined" THEN N(DefaultBatchSize * Den) ELSE settings.batchSize

\* C21: the batch size a call of embed_batch on some items goes on with is a
\* finite number above 0: the model's batch_size when that is one, else the
\* configured default, whatever the two are (0, negative, no number, missing).
C21_EffectiveBatchSizeFinitePositive ==
  [][\A c \in DOMAIN eb :
        (CallStarted(c) /\ Len(eb'[c].items) > 0) =>
          /\ FinitePositive(eb'[c].batchSize)
          /\ eb'[c].batchSize = IF FinitePositive(ToNumber(model.batch_size))
                                 THEN ToNumber(model.batch_size) ELSE ConfiguredDefault]_vars
\* The groups one after the other.
RECURSIVE Flatten(_)
Flatten(groups) == IF Len(groups) = 0 THEN <<>> ELSE Head(groups) \o Flatten(Tail(groups))

\* C22: the batch requests of a call partition its normalized inputs: each
\* group, the input of one batch request, has at least 1 and at most the
\* effective batch size texts, and the groups in request order, one after the
\* other, are the normalized input list.
C22_BatchRequestsPartitionInputs ==
  \A c \in DOMAIN eb :
     AwaitsEmbedding(eb[c]) =>
       /\ Flatten(eb[c].groups) = eb[c].normalized
       /\ eb[c].log[1] = [Request("batch", eb[c].gi, eb[c].groups[eb[c].gi])
                           EXCEPT !.resp = eb[c].log[1].resp]
       /\ \A g \in 1..Len(eb[c].groups) :
             /\ Len(eb[c].groups[g]) >= 1
             /\ FinitePositive(eb[c].batchSize)
             /\ Len(eb[c].groups[g]) * Den <= eb[c].batchSize.n
\* C24: a call of embed_batch with no items returns the empty list in the
\* step that makes it: it issues no request, for the catalog or for
\* embeddings, and leaves the model configuration and the catalog cache as
\* they are.
C24_EmptyCallTouchesNothing ==
  [][\A c \in DOMAIN eb :
        (CallStarted(c) /\ Len(eb'[c].items) = 0) =>
          /\ eb'[c].pc = "done" /\ eb'[c].status = "returned"
          /\ eb'[c].value = <<>> /\ eb'[c].log = <<>>
          /\ netCalls' = netCalls
          /\ model' = model
          /\ cachedModels' = cachedModels /\ lastFetchedAt' = lastFetchedAt]_vars

\* An empty call has returned on a model without key whose batch_size is no
\* finite number above 0: a call on some items would have fetched the catalog
\* and written the batch size.
C24_Witness ==
  /\ eb[1].n = 1 /\ eb[1].items = <<>>
  /\ eb[1].status = "returned" /\ eb[1].value = <<>>
  /\ model.model_key = Undef /\ ~FinitePositive(ToNumber(model.batch_size))
  /\ netCalls = 0
\* C25: the step that completes a group has added exactly as many vectors as
\* the group has texts; a call that returns has produced one vector per
\* normalized input, and each vector it returns is the server's vector for
\* the input at its place, none a zero vector of padToLength.
C25_PaddingUnreachable ==
  /\ [][\A c \in DOMAIN eb :
           (GroupCompleted(c) \/ (AwaitsEmbedding(eb[c]) /\ eb'[c].status = "returned")) =>
             Len(eb'[c].vectors) = eb[c].base + Len(eb[c].groups[eb[c].gi])]_vars
  /\ [](\A c \in DOMAIN eb : eb[c].status = "returned" =>
           /\ Len(eb[c].vectors) = Len(eb[c].normalized)
           /\ Len(eb[c].value) = Len(eb[c].normalized)
           /\ \A i \in 1..Len(eb[c].value) :
                 /\ ServerVector(eb[c].value[i].vec)
                 /\ eb[c].value[i].vec = Vec(eb[c].normalized[i]))
\* A step in which a load call of caller c ended with the error of its
\* catalog request.
LoadThrew(c) == gm'[c] # gm[c] /\ gm'[c].op = "load" /\ gm'[c].status = "threw"

\* C27: the state becomes "loaded" only in a step in which a load call
\* returns the catalog it obtained; the step in which a load call starts to
\* wait for the catalog, and the step in which it fails with the catalog
\* request's error, leave the state as it was.
C27_LoadedOnlyAfterCatalog ==
  [][ /\ (state' = "loaded" /\ state # "loaded") =>
            \E c \in DOMAIN gm : LoadReturned(c) /\ gm'[c].value = cachedModels'
      /\ \A c \in DOMAIN gm :
            /\ LoadThrew(c) => state' = state
            /\ (gm'[c] # gm[c] /\ gm'[c].pc = "await_models") => state' = state
            /\ LoadReturned(c) => state' = "loaded"
    ]_vars

\* The first load of an unloaded adapter failed with the error of its catalog
\* request, and the adapter is unloaded.
C27_Witness ==
  /\ gm[1].n = 1 /\ gm[1].op = "load" /\ gm[1].status = "threw"
  /\ state = "unloaded"
  /\ atUnload[1].n = 0 /\ eb[1].n = 0
\* A step in which the response to the request of caller c replaced the
\* snapshot.
SnapshotReplaced(c) == lm[c].pc = "await_models" /\ lm'[c].status = "returned"

\* C26: however listModels calls overlap, lastFetchedAt never decreases, and
\* the response to a request started before the request whose snapshot is
\* cached never replaces that snapshot.
C26_CacheNeedsNoLocking ==
  [][ /\ lastFetchedAt' >= lastFetchedAt
      /\ \A c \in DOMAIN lm : SnapshotReplaced(c) => lm[c].now >= lastFetchedAt
    ]_vars
\* A call of embed_batch is under way.
CallUnderWay == \E c \in DOMAIN eb : eb[c].pc \notin {"idle", "done"}

\* The requests of kind `kind` in the log of the group at hand.
RequestsOf(f, kind) == Len(SelectSeq(f.log, LAMBDA r : r.kind = kind))

\* C28: with every request answered in the end, a call of embed_batch that is
\* under way ends, by return or by throw, whatever the batch sizes are; and
\* for a group it issues one batch request and at most two individual requests
\* per text.
C28_EmbedBatchTerminates ==
  /\ CallUnderWay ~> ~CallUnderWay
  /\ [](\A c \in DOMAIN eb : InLoop(eb[c]) =>
           /\ RequestsOf(eb[c], "batch") = 1
           /\ RequestsOf(eb[c], "one") <= 2 * Len(eb[c].groups[eb[c].log[1].g]))
\* A step in which a call of registerLmStudioProvider returned.
ProviderRegistered == plugin'.regs > plugin.regs

\* C23: after every call of registerLmStudioProvider that returns, each
\* adapter registry the env has maps the three adapter keys to the class, also
\* when the provider entry was registered by an earlier call and a registry
\* appeared or was replaced since.
C23_RegistriesHoldClassAfterCall ==
  [][ProviderRegistered =>
       \A r \in AdapterRegistries :
          env'.adapters[r].present => env'.adapters[r].keys = Range(ADAPTER_KEYS)]_vars

\* C29: once bootstrapped is true there is no further call of
\* registerLmStudioProvider, no further listModels(true) of the plugin and no
\* further "provider registered" notice; and after a tick of the interval that
\* finds or makes bootstrapped true the interval is cleared.
C29_BootstrapAtMostOnce ==
  /\ [][plugin.bootstrapped =>
          /\ plugin'.regs = plugin.regs
          /\ plugin'.warmups = plugin.warmups
          /\ plugin'.notices = plugin.notices]_vars
  /\ []((plugin.last = "tick" /\ plugin.bootstrapped) => plugin.interval = "null")
====
